---- MODULE Spec2Model ----
(***************************************************************************)
(* rsid_to_hs37d5.py: resolution of rsIDs to hs37d5 coordinates through    *)
(* MyVariant.info (service A) and the Ensembl GRCh37 REST API (service B), *)
(* the batch runner and the formatter.                                     *)
(*                                                                         *)
(* Python strings are sequences of one-character strings.  Python/JSON     *)
(* values are records [t, s, n, l]: t is the type tag, s the characters of *)
(* a str, n the value of an int, l the elements of a list of str.          *)
(***************************************************************************)
EXTENDS Integers, Sequences, FiniteSets, TLC

\* ---------------------------------------------------------------- bounds
\* longest chromosome name a service sends
MaxNameLen == 4
\* longest rsid_list handed to batch_get_loci
MaxBatch == 2

\* ---------------------------------------------------------- Python values
PyNone == [t |-> "None", s |-> <<>>, n |-> 0, l |-> <<>>]
\* a key that the JSON object does not hold
Missing == [t |-> "missing", s |-> <<>>, n |-> 0, l |-> <<>>]
PyStr(s) == [t |-> "str", s |-> s, n |-> 0, l |-> <<>>]
PyInt(n) == [t |-> "int", s |-> <<>>, n |-> n, l |-> <<>>]
PyList(l) == [t |-> "list", s |-> <<>>, n |-> 0, l |-> l]

\* bool(v), as `if v` and `a and b` evaluate it
Truthy(v) ==
    CASE v.t = "str" -> v.s # <<>>
      [] v.t = "int" -> v.n # 0
      [] v.t = "list" -> v.l # <<>>
      [] OTHER -> FALSE

\* d.get(key): None when the key is missing
DictGet(v) == IF v.t = "missing" THEN PyNone ELSE v

\* d.get(key, ''): the empty str when the key is missing
DictGetStr(v) == IF v.t = "missing" THEN PyStr(<<>>) ELSE v

Digit(d) == <<"0", "1", "2", "3", "4", "5", "6", "7", "8", "9">>[d + 1]

RECURSIVE Decimal(_)
Decimal(k) == IF k < 10 THEN <<Digit(k)>> ELSE Decimal(k \div 10) \o <<Digit(k % 10)>>

\* str(v), also what an f-string renders
PyToStr(v) ==
    CASE v.t = "str" -> v.s
      [] v.t = "int" -> IF v.n < 0 THEN <<"-">> \o Decimal(-v.n) ELSE Decimal(v.n)
      [] OTHER -> <<"N", "o", "n", "e">>

StartsWith(s, p) == Len(s) >= Len(p) /\ SubSeq(s, 1, Len(p)) = p

\* s.replace('chr', ''): every non-overlapping occurrence, left to right
RECURSIVE ReplaceChr(_)
ReplaceChr(s) ==
    IF Len(s) < 3 THEN s
    ELSE IF StartsWith(s, <<"c", "h", "r">>) THEN ReplaceChr(SubSeq(s, 4, Len(s)))
    ELSE <<Head(s)>> \o ReplaceChr(Tail(s))

\* s.split('/'): never empty, ''.split('/') is ['']
RECURSIVE Split(_)
Split(s) ==
    IF \A k \in 1..Len(s) : s[k] # "/" THEN <<s>>
    ELSE LET k == CHOOSE j \in 1..Len(s) : s[j] = "/" /\ \A m \in 1..(j - 1) : s[m] # "/"
         IN <<SubSeq(s, 1, k - 1)>> \o Split(SubSeq(s, k + 1, Len(s)))

\* ','.join(l)
RECURSIVE Join(_)
Join(l) ==
    IF l = <<>> THEN <<>>
    ELSE IF Len(l) = 1 THEN l[1]
    ELSE l[1] \o <<",">> \o Join(Tail(l))

\* rsid = rsid if rsid.startswith('rs') else f"rs{rsid}"
Normalize(rsid) == IF StartsWith(rsid, <<"r", "s">>) THEN rsid ELSE <<"r", "s">> \o rsid

\* the result dict as each service function first builds it
NewResult(rsid) ==
    [rsid |-> rsid, chromosome |-> PyNone, position |-> PyNone,
     ref_allele |-> PyNone, alt_alleles |-> PyList(<<>>), build |-> "hs37d5"]

\* what a call produces: the value returned (None or a result dict), the
\* exception that leaves it ("" when it returns), the lines it printed
Returns(v, lines) == [ret |-> v, raised |-> "", out |-> lines]
Raises(e, lines) == [ret |-> PyNone, raised |-> e, out |-> lines]

\* `if result['chromosome'] and result['position']: return result` / `return None`
Complete(result) ==
    IF Truthy(result.chromosome) /\ Truthy(result.position) THEN result ELSE PyNone

\* --------------------------------------------------------- output channel
\* print(f"Error with {api} API: {e}")
ErrorLine(api, e) == [kind |-> "error", api |-> api, exc |-> e, rsid |-> <<>>]
\* print(f"Could not find coordinates for {rsid}")
NotFoundLine(rsid) == [kind |-> "notfound", api |-> "", exc |-> "", rsid |-> rsid]

\* ------------------------------------------------------ service responses
\* requests.get raises these before any status is seen
TransportFailures == {"ConnectionError", "Timeout"}
Statuses == {"200", "404", "500"} \cup TransportFailures

\* the object under dbsnp.hg19 / an element of mappings; isdict is FALSE for
\* a JSON value that is no object
CoordObject(chr, start) == [isdict |-> TRUE, chr |-> chr, start |-> start]
NotAnObject == [isdict |-> FALSE, chr |-> Missing, start |-> Missing]

\* service A: status, whether the body decodes as JSON, whether it holds
\* "dbsnp", the shape of dbsnp.hg19 ("missing", "dict", "list", "other") with
\* its objects, dbsnp.ref and dbsnp.alt
ResponseA(status, json, hasDbsnp, shape, items, ref, alt) ==
    [status |-> status, json |-> json, hasDbsnp |-> hasDbsnp, shape |-> shape,
     items |-> items, ref |-> ref, alt |-> alt]

\* service B: status, whether the body decodes, whether it holds "mappings",
\* and the mappings
MappingObject(name, start, alleles) ==
    [isdict |-> TRUE, seq_region_name |-> name, start |-> start, allele_string |-> alleles]
NotAMapping ==
    [isdict |-> FALSE, seq_region_name |-> Missing, start |-> Missing, allele_string |-> Missing]
ResponseB(status, json, hasMappings, mappings) ==
    [status |-> status, json |-> json, hasMappings |-> hasMappings, mappings |-> mappings]

\* no response: nothing received yet, or the callee's locals are gone
NoResponse == [status |-> "", json |-> FALSE]

\* --------------------------------------------------------------- service A
\* lines 50-53: dbsnp.hg19 is an object
FromDict(result, items) ==
    [result EXCEPT !.chromosome = PyStr(ReplaceChr(PyToStr(DictGetStr(items[1].chr)))),
                   !.position = DictGet(items[1].start)]

\* FromList keeping the 'chr' of the name
FromList_KeepChr(result, items) ==
    [result EXCEPT !.chromosome = PyStr(PyToStr(DictGetStr(items[1].chr))),
                   !.position = DictGet(items[1].start)]

\* lines 54-57: dbsnp.hg19 is a non-empty list, whose first element is used
FromList(result, items) ==
    [result EXCEPT !.chromosome = PyStr(ReplaceChr(PyToStr(DictGetStr(items[1].chr)))),
                   !.position = DictGet(items[1].start)]

\* lines 60-64: ref as it came, alt wrapped into a list when it is one str
WithAlleles(result, ref, alt) ==
    LET r1 == IF ref.t # "missing" THEN [result EXCEPT !.ref_allele = ref] ELSE result
    IN IF alt.t = "missing" THEN r1
       ELSE [r1 EXCEPT !.alt_alleles = IF alt.t = "str" THEN PyList(<<alt.s>>) ELSE alt]

\* lines 36-68: the body of the try block once the JSON is decoded
ParseMyVariant(rsid, resp) ==
    LET result == NewResult(rsid)
        isList == resp.shape = "list" /\ Len(resp.items) > 0
    IN IF ~(resp.hasDbsnp /\ resp.shape # "missing") THEN Returns(Complete(result), <<>>)
       ELSE IF isList /\ ~resp.items[1].isdict THEN Raises("AttributeError", <<>>)
       ELSE LET r1 == IF resp.shape = "dict" THEN FromDict(result, resp.items)
                      ELSE IF isList THEN FromList(result, resp.items)
                      ELSE result
            IN Returns(Complete(WithAlleles(r1, resp.ref, resp.alt)), <<>>)

\* CatchRequestException without the warning
CatchRequestException_Silent(api, e) == Returns(PyNone, <<>>)

\* lines 70-72 and 122-124: except requests.exceptions.RequestException
CatchRequestException(api, e) == Returns(PyNone, <<ErrorLine(api, e)>>)

\* response.json() on a body that is no JSON: requests.exceptions.JSONDecodeError
\* is a RequestException in the requests releases that define it (caught) and
\* a plain ValueError in the older ones (not caught)
JsonFailure(api, caught) ==
    IF caught THEN CatchRequestException(api, "JSONDecodeError")
    ELSE Raises("JSONDecodeError", <<>>)

get_hs37d5_loci_myvariant(rsid, resp, jsonErrCaught) ==
    LET id == Normalize(rsid)
    IN IF resp.status \in TransportFailures
         THEN CatchRequestException("MyVariant.info", resp.status)
       ELSE IF resp.status = "404" THEN Returns(PyNone, <<>>)
       ELSE IF resp.status # "200" THEN CatchRequestException("MyVariant.info", "HTTPError")
       ELSE IF ~resp.json THEN JsonFailure("MyVariant.info", jsonErrCaught)
       ELSE ParseMyVariant(id, resp)

\* --------------------------------------------------------------- service B
\* lines 111-116
WithAlleleString(result, s) ==
    LET alleles == Split(s)
        r1 == [result EXCEPT !.ref_allele = PyStr(alleles[1])]
    IN IF Len(alleles) > 1 THEN [r1 EXCEPT !.alt_alleles = PyList(Tail(alleles))] ELSE r1

\* lines 95-120
ParseEnsembl(rsid, resp) ==
    LET result == NewResult(rsid)
    IN IF ~(resp.hasMappings /\ Len(resp.mappings) > 0) THEN Returns(Complete(result), <<>>)
       ELSE LET mapping == resp.mappings[1]
                name == DictGetStr(mapping.seq_region_name)
            IN IF ~mapping.isdict \/ name.t # "str" THEN Raises("AttributeError", <<>>)
               ELSE LET r1 == [result EXCEPT !.chromosome = PyStr(ReplaceChr(name.s)),
                                             !.position = DictGet(mapping.start)]
                    IN IF mapping.allele_string.t = "missing" THEN Returns(Complete(r1), <<>>)
                       ELSE IF mapping.allele_string.t # "str" THEN Raises("AttributeError", <<>>)
                       ELSE Returns(Complete(WithAlleleString(r1, mapping.allele_string.s)), <<>>)

get_hs37d5_loci_ensembl(rsid, resp, jsonErrCaught) ==
    LET id == Normalize(rsid)
    IN IF resp.status \in TransportFailures
         THEN CatchRequestException("Ensembl", resp.status)
       ELSE IF resp.status = "404" THEN Returns(PyNone, <<>>)
       ELSE IF resp.status # "200" THEN CatchRequestException("Ensembl", "HTTPError")
       ELSE IF ~resp.json THEN JsonFailure("Ensembl", jsonErrCaught)
       ELSE ParseEnsembl(id, resp)

\* --------------------------------------------------------------- formatter
\* lines 202-215; styles are 'standard' and 'hs37d5'.  ','.join(None) is a
\* TypeError.
AltText(alt) == IF Join(alt.l) # <<>> THEN Join(alt.l) ELSE <<"N", "/", "A">>

format_loci(loci, style) ==
    IF loci = PyNone THEN Returns(<<"N", "o", "t", " ", "f", "o", "u", "n", "d">>, <<>>)
    ELSE IF loci.alt_alleles.t # "list" THEN Raises("TypeError", <<>>)
    ELSE LET chrom == PyToStr(loci.chromosome)
             pos == PyToStr(loci.position)
             \* loci.get('ref_allele', 'N/A'): every result dict holds the key
             ref == PyToStr(loci.ref_allele)
             alt == AltText(loci.alt_alleles)
             body == chrom \o <<":">> \o pos \o <<" ", "(">> \o ref \o <<"/">> \o alt \o <<")">>
         IN IF style = "hs37d5" THEN Returns(body, <<>>)
            ELSE Returns(<<"c", "h", "r">> \o body, <<>>)

\* ------------------------------------------------------------------ inputs
Alphabet == {"c", "h", "r", "1"}
\* chromosome names: every string over Alphabet of at most MaxNameLen characters
Names == UNION {[1..m -> Alphabet] : m \in 0..MaxNameLen}
PlainNames == {<<"1">>, <<"c", "h", "r", "1">>}

\* dbsnp.hg19.chr: missing, null, a number or a name
ChrValues == {Missing, PyNone, PyInt(1)} \cup {PyStr(nm) : nm \in Names}
PlainChrValues == {PyStr(nm) : nm \in PlainNames}
StartValues == {Missing, PyNone, PyInt(0), PyInt(100)}
RefValues == {Missing, PyStr(<<"A">>)}
AltValues == {Missing, PyStr(<<"C">>), PyList(<<>>), PyList(<<<<"C">>, <<"G">>>>)}

\* the shapes of dbsnp.hg19 around one object: bare, a one-element list, a
\* longer list
HG19Shapes(obj) ==
    {<<"dict", <<obj>>>>, <<"list", <<obj>>>>,
     <<"list", <<obj, CoordObject(PyStr(<<"1">>), PyInt(7))>>>>}

\* dbsnp.hg19 values that hold no usable object
HG19Degenerate ==
    {<<"missing", <<>>>>, <<"other", <<>>>>, <<"list", <<>>>>, <<"list", <<NotAnObject>>>>}

Body200A(hg19, ref, alt) == ResponseA("200", TRUE, TRUE, hg19[1], hg19[2], ref, alt)

\* what service A can answer: every name with one choice of alleles, every
\* choice of alleles with the plain names, the degenerate bodies and the
\* failures
ServiceAResponses ==
    {Body200A(h, PyStr(<<"A">>), PyStr(<<"C">>)) :
        h \in UNION {HG19Shapes(CoordObject(c, st)) : c \in ChrValues, st \in StartValues}}
    \cup {Body200A(h, rf, al) :
        h \in UNION {HG19Shapes(CoordObject(c, PyInt(100))) : c \in PlainChrValues},
        rf \in RefValues, al \in AltValues}
    \cup {Body200A(h, PyStr(<<"A">>), Missing) : h \in HG19Degenerate}
    \cup {ResponseA("200", TRUE, FALSE, "missing", <<>>, Missing, Missing),
          ResponseA("200", FALSE, FALSE, "missing", <<>>, Missing, Missing)}
    \cup {ResponseA(st, FALSE, FALSE, "missing", <<>>, Missing, Missing) :
             st \in Statuses \ {"200"}}

AlleleStrings ==
    {Missing, PyNone, PyStr(<<>>), PyStr(<<"A">>), PyStr(<<"A", "/", "C">>),
     PyStr(<<"A", "/", "C", "/", "G">>)}

MappingLists(m) == {<<m>>, <<m, MappingObject(PyStr(<<"1">>), PyInt(7), Missing)>>}

Body200B(mappings) == ResponseB("200", TRUE, TRUE, mappings)

ServiceBResponses ==
    {Body200B(ms) :
        ms \in UNION {MappingLists(MappingObject(c, st, PyStr(<<"A", "/", "C">>))) :
                         c \in ChrValues, st \in StartValues}}
    \cup {Body200B(ms) :
        ms \in UNION {MappingLists(MappingObject(c, PyInt(100), al)) :
                         c \in PlainChrValues, al \in AlleleStrings}}
    \cup {Body200B(<<>>), Body200B(<<NotAMapping>>),
          ResponseB("200", TRUE, FALSE, <<>>), ResponseB("200", FALSE, FALSE, <<>>)}
    \cup {ResponseB(st, FALSE, FALSE, <<>>) : st \in Statuses \ {"200"}}

\* the answers the batch runs are checked against: a record, two bodies
\* without coordinates, a body that does not parse, not found, a failure
BatchResponsesA ==
    {Body200A(<<"dict", <<CoordObject(PyStr(<<"c", "h", "r", "1">>), PyInt(100))>>>>,
              PyStr(<<"A">>), PyStr(<<"C">>)),
     Body200A(<<"list", <<CoordObject(PyStr(<<"1">>), Missing)>>>>, Missing, Missing),
     Body200A(<<"list", <<NotAnObject>>>>, Missing, Missing),
     ResponseA("404", FALSE, FALSE, "missing", <<>>, Missing, Missing),
     ResponseA("Timeout", FALSE, FALSE, "missing", <<>>, Missing, Missing)}

BatchResponsesB ==
    {Body200B(<<MappingObject(PyStr(<<"1">>), PyInt(7), PyStr(<<"A", "/", "C">>))>>),
     Body200B(<<MappingObject(PyNone, PyInt(7), Missing)>>),
     ResponseB("404", FALSE, FALSE, <<>>),
     ResponseB("500", FALSE, FALSE, <<>>)}

\* identifiers, with and without the 'rs' prefix
Ids == {<<"r", "s", "1">>, <<"1">>, <<"r", "s", "2">>}
LookupIds == {<<"r", "s", "1">>, <<"1">>}
IdLists == UNION {[1..m -> Ids] : m \in 0..MaxBatch}
Methods == {"myvariant", "ensembl", "auto", "bogus"}
Delays == {-1, 0, 1}
Styles == {"standard", "hs37d5"}

\* ------------------------------------------------------------------- state
VARIABLES
    entry,       \* the function the caller invoked
    rsid_list,   \* batch_get_loci's identifiers (the one argument of a single lookup)
    delay,       \* batch_get_loci's delay
    method,      \* the method selector
    i,           \* the 0-based index of the loop of batch_get_loci
    results,     \* the dict batch_get_loci fills
    pc,          \* where control is
    rsid,        \* the identifier of the lookup in progress
    resp,        \* the response of the service call that just ended
    svc,         \* the service that call went to
    retA,        \* what get_hs37d5_loci_myvariant returned in this lookup
    retB,        \* what get_hs37d5_loci_ensembl returned in this lookup
    result,      \* what the last call returned to its caller
    raised,      \* the exception propagating to the caller, "" if none
    out,         \* the lines printed
    log,         \* the events so far: lookups, requests, returns, sleeps
    style,       \* the style handed to format_loci
    text         \* what format_loci returned

vars == <<entry, rsid_list, delay, method, i, results, pc,
          rsid, resp, svc, retA, retB, result, raised, out, log, style, text>>

\* a service function not called in the current lookup
NotCalled == [t |-> "not called", s |-> <<>>, n |-> 0, l |-> <<>>]

Event(ev, api, id, ret) == [ev |-> ev, api |-> api, rsid |-> id, ret |-> ret]

EmptyDict == [k \in {} |-> PyNone]

InitCommon ==
    /\ method \in Methods
    /\ i = 0
    /\ results = EmptyDict
    /\ resp = NoResponse
    /\ svc = ""
    /\ retA = NotCalled
    /\ retB = NotCalled
    /\ result = PyNone
    /\ raised = ""
    /\ out = <<>>
    /\ log = <<>>
    /\ style = ""
    /\ text = <<>>

\* a call of batch_get_loci(rsid_list, delay, method)
Init ==
    /\ entry = "batch_get_loci"
    /\ rsid_list \in IdLists
    /\ delay \in Delays
    /\ pc = "loop"
    /\ rsid = <<>>
    /\ InitCommon

\* a call of get_hs37d5_loci(rsid, method), whose result is then formatted
InitLookup ==
    /\ entry = "get_hs37d5_loci"
    /\ \E id \in LookupIds : rsid_list = <<id>> /\ rsid = id
    /\ delay = 0
    /\ pc = "lookup"
    /\ InitCommon

\* the answers a service gives in the runs of each entry point
AnswersA == IF entry = "batch_get_loci" THEN BatchResponsesA ELSE ServiceAResponses
AnswersB == IF entry = "batch_get_loci" THEN BatchResponsesB ELSE ServiceBResponses

\* whether the installed requests release raises its JSON error as a
\* RequestException: either, for a body that is no JSON
JsonErrorCaught(r) == IF r.status = "200" /\ ~r.json THEN BOOLEAN ELSE {TRUE}

\* ------------------------------------------------------- get_hs37d5_loci
\* Dispatch taking an unknown method for the default
Dispatch_DefaultMyVariant(m) == IF m = "ensembl" THEN "ensembl" ELSE "myvariant"

\* lines 149-160: the first step a method selects
Dispatch(m) ==
    IF m = "myvariant" \/ m = "auto" THEN "myvariant"
    ELSE IF m = "ensembl" THEN "ensembl"
    ELSE "raised"

\* AfterMyVariant falling back whatever service A returned
AfterMyVariant_AlwaysFallBack(m, ret) == IF m = "auto" THEN "ensembl" ELSE "return"

\* lines 150 and 155-158: after service A returned
AfterMyVariant(m, ret) == IF m = "auto" /\ ret = PyNone THEN "ensembl" ELSE "return"

\* lines 146-160: normalise, then select by method or raise ValueError
Lookup ==
    /\ pc = "lookup"
    /\ rsid' = Normalize(rsid)
    /\ log' = Append(log, Event("lookup", "", Normalize(rsid), PyNone))
    /\ pc' = Dispatch(method)
    /\ raised' = IF Dispatch(method) = "raised" THEN "ValueError" ELSE ""
    /\ retA' = NotCalled
    /\ retB' = NotCalled
    /\ UNCHANGED <<entry, rsid_list, delay, method, i, results,
                   resp, svc, result, out, style, text>>

\* the events of one service call: the request, then its return unless it raised
CallEvents(api, id, o) ==
    <<Event("request", api, id, PyNone)>>
    \o (IF o.raised = "" THEN <<Event("return", api, id, o.ret)>> ELSE <<>>)

\* lines 150/155: get_hs37d5_loci_myvariant(rsid) against the answer of service A
CallMyVariant ==
    /\ pc = "myvariant"
    /\ \E r \in AnswersA : \E caught \in JsonErrorCaught(r) :
         LET o == get_hs37d5_loci_myvariant(rsid, r, caught)
         IN /\ resp' = r
            /\ svc' = "myvariant"
            /\ out' = out \o o.out
            /\ log' = log \o CallEvents("myvariant", rsid, o)
            /\ raised' = o.raised
            /\ retA' = IF o.raised = "" THEN o.ret ELSE retA
            /\ result' = IF o.raised = "" THEN o.ret ELSE result
            /\ pc' = IF o.raised # "" THEN "raised" ELSE "myvariant returned"
    /\ UNCHANGED <<entry, rsid_list, delay, method, i, results,
                   rsid, retB, style, text>>

\* lines 152/157: get_hs37d5_loci_ensembl(rsid) against the answer of service B
CallEnsembl ==
    /\ pc = "ensembl"
    /\ \E r \in AnswersB : \E caught \in JsonErrorCaught(r) :
         LET o == get_hs37d5_loci_ensembl(rsid, r, caught)
         IN /\ resp' = r
            /\ svc' = "ensembl"
            /\ out' = out \o o.out
            /\ log' = log \o CallEvents("ensembl", rsid, o)
            /\ raised' = o.raised
            /\ retB' = IF o.raised = "" THEN o.ret ELSE retB
            /\ result' = IF o.raised = "" THEN o.ret ELSE result
            /\ pc' = IF o.raised # "" THEN "raised" ELSE "ensembl returned"
    /\ UNCHANGED <<entry, rsid_list, delay, method, i, results,
                   rsid, retA, style, text>>

\* control is back in get_hs37d5_loci with the value service A returned; the
\* callee's response is gone.  Lines 150 and 155-158
MyVariantReturned ==
    /\ pc = "myvariant returned"
    /\ resp' = NoResponse
    /\ pc' = AfterMyVariant(method, retA)
    /\ UNCHANGED <<entry, rsid_list, delay, method, i, results,
                   rsid, svc, retA, retB, result, raised, out, log, style, text>>

\* the same for service B.  Lines 152 and 157-158
EnsemblReturned ==
    /\ pc = "ensembl returned"
    /\ resp' = NoResponse
    /\ pc' = "return"
    /\ UNCHANGED <<entry, rsid_list, delay, method, i, results,
                   rsid, svc, retA, retB, result, raised, out, log, style, text>>

\* lines 150/152/158: get_hs37d5_loci returns to its caller
Return ==
    /\ pc = "return"
    /\ svc' = ""
    /\ log' = Append(log, Event("result", "", rsid, result))
    /\ pc' = IF entry = "batch_get_loci" THEN "store" ELSE "format"
    /\ UNCHANGED <<entry, rsid_list, delay, method, i, results,
                   rsid, resp, retA, retB, result, raised, out, style, text>>

\* lines 242-249: the caller formats what the lookup returned
Format ==
    /\ pc = "format"
    /\ \E style_ \in Styles :
         LET o == format_loci(result, style_)
         IN /\ text' = o.ret
            /\ raised' = o.raised
            /\ style' = style_
            /\ pc' = IF o.raised # "" THEN "raised" ELSE "done"
    /\ UNCHANGED <<entry, rsid_list, delay, method, i, results,
                   rsid, resp, svc, retA, retB, result, out, log>>

\* -------------------------------------------------------- batch_get_loci
\* StoreResult keeping the first record of a key
StoreResult_KeepFirst(d, key, value) ==
    [k \in DOMAIN d \cup {key} |-> IF k \in DOMAIN d THEN d[k] ELSE value]

\* lines 182-183: results[rsid] = result
StoreResult(d, key, value) ==
    [k \in DOMAIN d \cup {key} |-> IF k = key THEN value ELSE d[k]]

\* ShouldSleep sleeping after the last identifier too
ShouldSleep_AfterLast(d, idx, n) == d > 0 /\ idx < n

\* line 188: the condition of the sleep
ShouldSleep(d, idx, n) == d > 0 /\ idx < n - 1

\* lines 177-181: the next identifier, normalised, is looked up; after the
\* last one, line 191 returns results
LoopHead ==
    /\ pc = "loop"
    /\ IF i < Len(rsid_list)
         THEN /\ rsid' = Normalize(rsid_list[i + 1])
              /\ pc' = "lookup"
         ELSE /\ rsid' = rsid
              /\ pc' = "done"
    /\ UNCHANGED <<entry, rsid_list, delay, method, i, results,
                   resp, svc, retA, retB, result, raised, out, log, style, text>>

\* lines 182-185: keep a truthy result, report a falsy one
Store ==
    /\ pc = "store"
    /\ IF result # PyNone
         THEN /\ results' = StoreResult(results, rsid, result)
              /\ out' = out
         ELSE /\ results' = results
              /\ out' = Append(out, NotFoundLine(rsid))
    /\ pc' = "ratelimit"
    /\ UNCHANGED <<entry, rsid_list, delay, method, i, rsid,
                   resp, svc, retA, retB, result, raised, log, style, text>>

\* lines 187-189, and the step of the loop
RateLimit ==
    /\ pc = "ratelimit"
    /\ log' = IF ShouldSleep(delay, i, Len(rsid_list))
                THEN Append(log, Event("sleep", "", <<>>, PyNone))
                ELSE log
    /\ i' = i + 1
    /\ pc' = "loop"
    /\ UNCHANGED <<entry, rsid_list, delay, method, results,
                   rsid, resp, svc, retA, retB, result, raised, out, style, text>>

Next ==
    \/ LoopHead \/ Lookup \/ CallMyVariant \/ MyVariantReturned \/ CallEnsembl
    \/ EnsemblReturned \/ Return \/ Store \/ RateLimit

NextLookup ==
    \/ Lookup \/ CallMyVariant \/ MyVariantReturned \/ CallEnsembl \/ EnsemblReturned
    \/ Return \/ Format

\* batch_get_loci
Spec == Init /\ [][Next]_vars

\* get_hs37d5_loci, then format_loci
SpecLookup == InitLookup /\ [][NextLookup]_vars

\* ================================================================= claims
ValidMethods == {"myvariant", "ensembl", "auto"}

IsRequest(e) == e.ev = "request"
IsResult(e) == e.ev = "result"
IsLookupOrSleep(e) == e.ev = "lookup" \/ e.ev = "sleep"
IsNotFoundLine(line) == line.kind = "notfound"
NamesEnsembl(line) == line.api = "Ensembl"
IsAbsent(e) == e.ret = PyNone

\* a response field that holds a value: the key is there and is not null
Supplied(v) == v.t # "missing" /\ v.t # "None"

\* service A's answer is decoded JSON that holds dbsnp.hg19
HoldsHG19(r) == r.status = "200" /\ r.json /\ r.hasDbsnp

\* the object service A's answer takes its coordinates from, if any
HasCoordObject(r) ==
    /\ HoldsHG19(r)
    /\ r.shape \in {"dict", "list"}
    /\ Len(r.items) > 0
    /\ r.items[1].isdict

HasMapping(r) ==
    /\ r.status = "200" /\ r.json /\ r.hasMappings
    /\ Len(r.mappings) > 0
    /\ r.mappings[1].isdict

FullRecord(v) == v = PyNone \/ (Truthy(v.chromosome) /\ Truthy(v.position))

\* C1: get_hs37d5_loci returns None or a record whose chromosome and position
\* are both present, and an answer that supplies only one of chromosome and
\* position, or neither, yields None.
C1_NonePartial ==
    /\ pc \in {"myvariant returned", "ensembl returned", "return", "format", "done"}
         => FullRecord(result)
    /\ (pc = "myvariant returned" /\ retA # PyNone)
         => /\ HasCoordObject(resp)
            /\ Supplied(resp.items[1].chr)
            /\ Supplied(resp.items[1].start)
    /\ (pc = "ensembl returned" /\ retB # PyNone)
         => /\ HasMapping(resp)
            /\ Supplied(resp.mappings[1].seq_region_name)
            /\ Supplied(resp.mappings[1].start)

\* C2: with method 'auto' service A is requested first; service B is
\* requested if and only if service A returned None, and only after service
\* A's call returned; the result is service A's record when it returned one
\* and otherwise what service B returned.
C2_AutoFallback ==
    method = "auto" =>
        LET reqs == SelectSeq(log, IsRequest)
            asked == \E k \in 1..Len(log) : log[k].ev = "request" /\ log[k].api = "ensembl"
        IN /\ Len(reqs) <= 2
           /\ Len(reqs) >= 1 => reqs[1].api = "myvariant"
           /\ Len(reqs) = 2 => reqs[2].api = "ensembl"
           /\ asked => /\ retA = PyNone
                       /\ \E k \in 2..Len(log) :
                            /\ log[k].ev = "request" /\ log[k].api = "ensembl"
                            /\ log[k - 1].ev = "return" /\ log[k - 1].api = "myvariant"
                            /\ log[k - 1].ret = PyNone
           /\ (retA = PyNone /\ pc \notin {"myvariant returned", "ensembl"}) => asked
           /\ pc \in {"return", "format", "done"}
                => result = (IF retA # PyNone THEN retA ELSE retB)

C2_Witness ==
    /\ method = "auto" /\ pc = "done"
    /\ retA = PyNone /\ retB # PyNone /\ result = retB

\* C3: in batch_get_loci with a valid method no failure of one identifier
\* aborts the batch: no exception propagates, and when the call returns every
\* identifier was looked up, in input order.
C3_BatchNeverAborts ==
    method \in ValidMethods =>
        /\ raised = ""
        /\ pc = "done" =>
             LET L == SelectSeq(log, IsResult)
             IN /\ Len(L) = Len(rsid_list)
                /\ \A k \in 1..Len(L) : L[k].rsid \in {rsid_list[k], <<"r", "s">> \o rsid_list[k]}

\* the 'rs'-prefixed form of an identifier
Prefixed(id) ==
    IF Len(id) >= 2 /\ id[1] = "r" /\ id[2] = "s" THEN id ELSE <<"r", "s">> \o id

\* the not-found lines are those of the lookups that returned None, in order
NotFoundReported(L) ==
    LET F == SelectSeq(L, IsAbsent)
        N == SelectSeq(out, IsNotFoundLine)
    IN /\ Len(N) = Len(F)
       /\ \A k \in 1..Len(F) : N[k] = NotFoundLine(F[k].rsid)

LookedUpInOrder(L) ==
    /\ Len(L) = Len(rsid_list)
    /\ \A k \in 1..Len(L) : L[k].rsid = Prefixed(rsid_list[k])

\* C4 as stated: the returned mapping holds exactly the 'rs'-prefixed forms
\* of the identifiers whose lookup returned a record, each mapped to that
\* record; an identifier whose lookup returned None is not in the mapping and
\* is reported as not found.
C4_MappingExactlyTheFound ==
    pc = "done" =>
        LET L == SelectSeq(log, IsResult)
        IN /\ LookedUpInOrder(L)
           /\ DOMAIN results = {L[k].rsid : k \in {j \in 1..Len(L) : L[j].ret # PyNone}}
           /\ \A k \in 1..Len(L) : L[k].ret # PyNone => results[L[k].rsid] = L[k].ret
           /\ \A k \in 1..Len(L) : L[k].ret = PyNone => L[k].rsid \notin DOMAIN results
           /\ NotFoundReported(L)

\* C4 amended: the returned mapping holds exactly the 'rs'-prefixed forms of
\* the identifiers for which some lookup returned a record, each mapped to
\* the record of the last lookup of that form that returned one; every lookup
\* that returned None is reported as not found, in order.
C4_MappingLastFound ==
    pc = "done" =>
        LET L == SelectSeq(log, IsResult)
            found(key) == {j \in 1..Len(L) : L[j].rsid = key /\ L[j].ret # PyNone}
        IN /\ LookedUpInOrder(L)
           /\ DOMAIN results = {L[k].rsid : k \in {j \in 1..Len(L) : L[j].ret # PyNone}}
           /\ \A key \in DOMAIN results :
                \E k \in found(key) :
                    /\ \A j \in found(key) : j <= k
                    /\ results[key] = L[k].ret
           /\ NotFoundReported(L)

C4_Witness ==
    /\ pc = "done" /\ Len(rsid_list) = 2
    /\ rsid_list[1] # rsid_list[2]
    /\ Prefixed(rsid_list[1]) = Prefixed(rsid_list[2])
    /\ DOMAIN results = {Prefixed(rsid_list[1])}
    /\ \E k \in 1..Len(out) : out[k] = NotFoundLine(Prefixed(rsid_list[1]))

\* C5: with delay > 0 a sleep follows each lookup except the last and
\* precedes the next lookup, so a batch of n identifiers that returns slept
\* max(0, n - 1) times and not after the last lookup; with delay <= 0 it
\* never sleeps.  The sleep does not depend on what the lookup returned.
C5_SleepBetweenLookups ==
    LET P == SelectSeq(log, IsLookupOrSleep)
        n == Len(rsid_list)
    IN /\ delay <= 0 => \A k \in 1..Len(P) : P[k].ev = "lookup"
       /\ delay > 0 =>
            \A k \in 1..Len(P) : P[k].ev = (IF k % 2 = 1 THEN "lookup" ELSE "sleep")
       /\ \A k \in 1..Len(log) :
            log[k].ev = "sleep" =>
                /\ k > 1 /\ log[k - 1].ev = "result"
                /\ k < Len(log) => log[k + 1].ev = "lookup"
       /\ pc = "done" => Len(P) = (IF delay > 0 /\ n > 0 THEN 2 * n - 1 ELSE n)

C5_Witness ==
    /\ pc = "done" /\ delay > 0 /\ Len(rsid_list) >= 2
    /\ \E k \in 2..Len(log) : log[k].ev = "sleep" /\ log[k - 1].ret = PyNone
    /\ Len(SelectSeq(log, IsResult)) = Len(rsid_list)
    /\ log[Len(log)].ev = "result"

\* the text the formatter is to produce for a record
ExpectedText(loci, st) ==
    (IF st = "hs37d5" THEN <<>> ELSE <<"c", "h", "r">>)
    \o PyToStr(loci.chromosome) \o <<":">> \o PyToStr(loci.position) \o <<" ", "(">>
    \o (IF loci.ref_allele = PyNone THEN <<"N", "/", "A">> ELSE loci.ref_allele.s)
    \o <<"/">>
    \o (IF loci.alt_alleles.l = <<>> THEN <<"N", "/", "A">> ELSE Join(loci.alt_alleles.l))
    \o <<")">>

\* C6: for every record get_hs37d5_loci returns and both styles, format_loci
\* renders an absent ref_allele as "N/A", empty alt_alleles as "N/A" and
\* otherwise the alternates joined by commas in their order.
C6_AbsentAllelesAsNA ==
    (pc = "done" /\ result # PyNone) => text = ExpectedText(result, style)

\* C7: a method other than 'myvariant', 'ensembl' and 'auto' makes
\* get_hs37d5_loci raise ValueError before any request, and the error
\* propagates through batch_get_loci, which returns nothing.
C7_UnknownMethodRaises ==
    method \notin ValidMethods =>
        /\ \A k \in 1..Len(log) : log[k].ev \in {"lookup"}
        /\ log # <<>> => (raised = "ValueError" /\ pc = "raised" /\ Len(log) = 1)
        /\ pc = "done" => rsid_list = <<>>
        /\ results = EmptyDict /\ out = <<>>

C7_Witness ==
    /\ entry = "batch_get_loci" /\ method = "bogus"
    /\ raised = "ValueError" /\ pc = "raised"
    /\ Len(rsid_list) = 2

\* C8: in a service call a 404 yields None and prints nothing; any other
\* transport failure yields None after exactly one warning that names the
\* service; no exception leaves the service function.
HttpFailures == TransportFailures \cup {"500"}

C8_NotFoundSilentFailureWarned ==
    /\ (svc = "myvariant" /\ resp.status = "404")
         => (retA = PyNone /\ raised = "" /\ out = <<>>)
    /\ (svc = "myvariant" /\ resp.status \in HttpFailures)
         => /\ retA = PyNone /\ raised = ""
            /\ Len(out) = 1 /\ out[1].kind = "error" /\ out[1].api = "MyVariant.info"
    /\ (svc = "ensembl" /\ resp.status = "404")
         => (retB = PyNone /\ raised = "" /\ SelectSeq(out, NamesEnsembl) = <<>>)
    /\ (svc = "ensembl" /\ resp.status \in HttpFailures)
         => /\ retB = PyNone /\ raised = ""
            /\ Len(SelectSeq(out, NamesEnsembl)) = 1
            /\ out[Len(out)].kind = "error" /\ out[Len(out)].api = "Ensembl"

C8_Witness ==
    /\ method = "auto" /\ svc = "ensembl" /\ pc = "ensembl returned"
    /\ resp.status = "Timeout"
    /\ Len(out) = 2 /\ out[1].api = "MyVariant.info"

\* C9: service A's answer with dbsnp.hg19 a bare object and the answer with
\* that object as the only element of a list give the same outcome of
\* get_hs37d5_loci_myvariant.
Rewrapped(r) ==
    IF r.shape = "dict" THEN [r EXCEPT !.shape = "list"] ELSE [r EXCEPT !.shape = "dict"]

C9_BareAndWrappedAgree ==
    (/\ svc = "myvariant" /\ HasCoordObject(resp) /\ Len(resp.items) = 1
     /\ pc \in {"myvariant returned", "raised"})
        => LET o == get_hs37d5_loci_myvariant(rsid, Rewrapped(resp), TRUE)
           IN /\ o.raised = raised
              /\ raised = "" => o.ret = retA
              /\ o.out = out

C9_Witness ==
    /\ svc = "myvariant" /\ pc = "myvariant returned"
    /\ HasCoordObject(resp) /\ resp.shape = "list" /\ Len(resp.items) = 1
    /\ retA # PyNone
    /\ retA.chromosome = PyStr(<<"1">>) /\ retA.position = PyInt(100)

\* the name without a leading 'chr'
StripPrefix(s) == IF StartsWith(s, <<"c", "h", "r">>) THEN SubSeq(s, 4, Len(s)) ELSE s

\* C10: the chromosome of a returned record is the service's chromosome name
\* without its leading 'chr' if it has one, and otherwise the name unchanged.
C10_OnlyLeadingChrRemoved ==
    /\ (pc = "myvariant returned" /\ retA # PyNone /\ resp.items[1].chr.t = "str")
         => retA.chromosome = PyStr(StripPrefix(resp.items[1].chr.s))
    /\ (pc = "ensembl returned" /\ retB # PyNone)
         => retB.chromosome = PyStr(StripPrefix(resp.mappings[1].seq_region_name.s))

====
